---- MODULE Spec2Model ----
(***************************************************************************)
(* One run of main.py: load_config, fetch_news, analyze_with_claude,       *)
(* save_results and send_telegram, with every external call (feed          *)
(* retrieval, model calls, file write, environment lookups, delivery       *)
(* calls) answering nondeterministically.                                  *)
(***************************************************************************)
EXTENDS Integers, Sequences, FiniteSets

\* ---- program constants ----
PerFeed == 10
FallbackCount == 3
ChunkSize == 4000
NumEnvSlots == 9
TelegramLimit == 4096
PrefixBase == 13

\* ---- bounds of the model ----
MaxFeeds == 2
MaxCap == 2
MaxChunks == 2
LongFeedList == 11
MaxRuns == 2

Min(a, b) == IF a < b THEN a ELSE b

\* ---- values ----
\* Python's None / a list, as one record shape.
NoneVal == [none |-> TRUE, items |-> <<>>]
ListVal(s) == [none |-> FALSE, items |-> s]

\* Python truthiness of None-or-list (`if not results`, `if not articles`).
Falsy(v) == v.none \/ v.items = <<>>

\* An item of a decoded JSON value: an integer, or something that is not one.
IntItem(n) == [t |-> "int", v |-> n]
StrItem == [t |-> "str", v |-> 0]

\* Chat identifiers. "" is the unset / empty value; PlaceholderIds are the
\* identifiers that start with "CHAT_ID_".
PlaceholderIds == {"CHAT_ID_1"}
StartsWithChatId(cid) == cid \in PlaceholderIds

\* Values of telegram.chat_ids a run may be configured with.
CfgChatIds == {<<>>, <<"CHAT_ID_1", "A">>}

\* Entry counts a feed may return, and the entry at which conversion may fail
\* (0: no failure).
EntryCounts == {0, 1, PerFeed + 1}
FailPoints(n) == {0} \cup ({1, Min(n, PerFeed)} \cap (1..n))

\* Index lists the relevance model may return for a batch of N: empty, in
\* range, out of order, repeated, out of range, negative, not an integer.
IndexLists(N) ==
  {<<>>, <<IntItem(0)>>, <<IntItem(1), IntItem(0)>>,
   <<IntItem(0), IntItem(1), IntItem(0)>>, <<IntItem(0), IntItem(N), IntItem(1)>>,
   <<IntItem(N)>>, <<IntItem(-1)>>, <<IntItem(-(N + 1))>>,
   <<IntItem(0), StrItem>>}

\* The loaded configuration: load_config() returns None or the settings (a
\* well-formed settings object: every key present, max_articles >= 0, the
\* chat identifiers strings). news_sources is the number of feed URLs: up to
\* MaxFeeds feeds that may answer anything, or a list of LongFeedList URLs.
Configs ==
  {[loaded |-> FALSE, news_sources |-> 0, max_articles |-> 0, chat_ids |-> <<>>]}
  \cup
  [loaded : {TRUE}, news_sources : (0..MaxFeeds) \cup {LongFeedList},
   max_articles : 0..MaxCap, chat_ids : CfgChatIds]

VARIABLES
  pc,                \* position in the run
  CONFIG,            \* result of load_config
  feedIdx,           \* fetch_news: next feed to retrieve (1-based)
  feedFailed,        \* fetch_news: per feed, whether its except branch ran
  articles,          \* fetch_news: the batch
  api_key,           \* analyze_with_claude: credential present
  filter_response,   \* analyze_with_claude: outcome of the filter call
  relevant_indices,  \* analyze_with_claude: decoded or fallback selection
  relevant_articles, \* analyze_with_claude: resolved selection
  genIdx,            \* analyze_with_claude: position in the generation loop
  genLog,            \* generation calls issued: <<article, succeeded>>
  content_results,   \* analyze_with_claude: drafts
  results,           \* main: what analyze_with_claude returned
  file,              \* the persisted document (None before the write)
  writes,            \* number of file writes
  bot_token,         \* send_telegram: credential present
  all_chat_ids,      \* send_telegram: recipient list
  messages,          \* send_telegram: chunks for the current recipient
  rIdx, mIdx,        \* send_telegram: current recipient and chunk (1-based)
  sendLog,           \* delivery calls issued
  filterCalls,       \* number of relevance calls issued
  fault,             \* exception that left main, "" if none
  run,               \* number of the current run of the program
  clock,             \* the wall clock, in minutes
  disk               \* output directory: per file name (a minute), its writers

vars == <<pc, CONFIG, feedIdx, feedFailed, articles, api_key, filter_response,
          relevant_indices, relevant_articles, genIdx, genLog, content_results,
          results, file, writes, bot_token, all_chat_ids, messages, rIdx,
          mIdx, sendLog, filterCalls, fault, run, clock, disk>>

NoFile == [written |-> FALSE, sections |-> <<>>, len |-> 0]
NoResponse == [kind |-> "none", items |-> <<>>]

Init ==
  /\ pc = "main"
  /\ CONFIG \in Configs
  /\ feedIdx = 1
  /\ feedFailed = <<>>
  /\ articles = <<>>
  /\ api_key = FALSE
  /\ filter_response = NoResponse
  /\ relevant_indices = NoResponse
  /\ relevant_articles = <<>>
  /\ genIdx = 1
  /\ genLog = <<>>
  /\ content_results = <<>>
  /\ results = NoneVal
  /\ file = NoFile
  /\ writes = 0
  /\ bot_token = FALSE
  /\ all_chat_ids = <<>>
  /\ messages = <<>>
  /\ rIdx = 1
  /\ mIdx = 1
  /\ sendLog = <<>>
  /\ filterCalls = 0
  /\ fault = ""
  /\ run = 1
  /\ clock = 0
  /\ disk = [m \in 0..(MaxRuns - 1) |-> <<>>]

\* ---- main, lines 276-287 ----
\* Faulty variant of the check: the run goes on without a configuration.
AfterConfigCheckAlways(cfg) == "fetch"

\* Lines 277-279: `if not CONFIG: return`.
AfterConfigCheck(cfg) == IF cfg.loaded THEN "fetch" ELSE "done"

MainStart ==
  /\ pc = "main"
  /\ pc' = AfterConfigCheck(CONFIG)
  /\ UNCHANGED <<run, clock, disk, api_key, CONFIG, feedIdx, feedFailed, articles, filter_response,
                 relevant_indices, relevant_articles, genIdx, genLog, content_results,
                 results, file, writes, bot_token, all_chat_ids, messages,
                 rIdx, mIdx, sendLog, filterCalls, fault>>

\* ---- fetch_news ----
\* Articles appended by one iteration of the feed loop: feedparser.parse
\* raises (parsed = FALSE), or returns n entries of which the first PerFeed are
\* converted one by one; conversion of entry failAt raises (0: none does).
Converted(f, parsed, n, failAt) ==
  IF ~parsed THEN <<>>
  ELSE [e \in 1..(IF failAt = 0 THEN Min(n, PerFeed) ELSE failAt - 1) |-> <<f, e>>]

\* Line 29: whether feedparser.parse may return. The feeds of the long list
\* are unreachable ones: each retrieval raises.
ParsedChoices(cfg) == IF cfg.news_sources > MaxFeeds THEN {FALSE} ELSE BOOLEAN

FetchFeed ==
  /\ pc = "fetch"
  /\ feedIdx <= CONFIG.news_sources
  /\ \E parsed \in ParsedChoices(CONFIG), n \in EntryCounts :
       \E failAt \in FailPoints(n) :
         /\ articles' = articles \o Converted(feedIdx, parsed, n, failAt)
         /\ feedFailed' = Append(feedFailed, ~parsed \/ failAt # 0)
  /\ feedIdx' = feedIdx + 1
  /\ UNCHANGED <<run, clock, disk, api_key, pc, CONFIG, filter_response, relevant_indices,
                 relevant_articles, genIdx, genLog, content_results, results, file,
                 writes, bot_token, all_chat_ids, messages, rIdx, mIdx,
                 sendLog, filterCalls, fault>>

\* fetch_news returns; main lines 289-294.
FetchDone ==
  /\ pc = "fetch"
  /\ feedIdx > CONFIG.news_sources
  /\ pc' = IF articles = <<>> THEN "done" ELSE "analyze"
  /\ UNCHANGED <<run, clock, disk, api_key, CONFIG, feedIdx, feedFailed, articles, filter_response,
                 relevant_indices, relevant_articles, genIdx, genLog, content_results,
                 results, file, writes, bot_token, all_chat_ids, messages,
                 rIdx, mIdx, sendLog, filterCalls, fault>>

\* ---- analyze_with_claude ----
\* Faulty variant of the check: the calls go out without a credential.
AfterKeyCheckAlways(key) == "filter"

\* Lines 48-50: `if not api_key: return None`.
AfterKeyCheck(key) == IF key THEN "filter" ELSE "save"

\* Lines 47-50: without the API credential the function returns None at once.
AnalyzeStart ==
  /\ pc = "analyze"
  /\ \E key \in BOOLEAN :
       /\ api_key' = key
       /\ pc' = AfterKeyCheck(key)
  /\ results' = NoneVal
  /\ UNCHANGED <<run, clock, disk, CONFIG, feedIdx, feedFailed, articles, filter_response,
                 relevant_indices, relevant_articles, genIdx, genLog,
                 content_results, file, writes, bot_token, all_chat_ids,
                 messages, rIdx, mIdx, sendLog, filterCalls, fault>>

\* What the filter call can come back with for a batch of N articles:
\*   raise    client.messages.create raises
\*   notjson  the text is not JSON: json.loads raises
\*   nolen    a JSON number, boolean or null: len() raises
\*   string   a JSON string: len() works, iteration yields characters
\*   object   a JSON object: len() works, iteration yields the keys
\*   list     a JSON array of the given items
Responses(N) ==
  {[kind |-> k, items |-> <<>>] : k \in {"raise", "notjson", "nolen"}}
  \cup {[kind |-> "string", items |-> <<StrItem>>],
        [kind |-> "object", items |-> <<>>]}
  \cup [kind : {"list"}, items : IndexLists(N)]

\* Line 86: the selection used when the try block of lines 75-83 raised.
Fallback(N) ==
  [kind |-> "list", items |-> [i \in 1..Min(FallbackCount, N) |-> IntItem(i - 1)]]

\* Lines 75-86: relevant_indices after the try/except.
Raised(resp) == resp.kind \in {"raise", "notjson", "nolen"}
Decoded(resp, N) == IF Raised(resp) THEN Fallback(N) ELSE resp

FilterCall ==
  /\ pc = "filter"
  /\ \E resp \in Responses(Len(articles)) :
       /\ filter_response' = resp
       /\ relevant_indices' = Decoded(resp, Len(articles))
  /\ filterCalls' = filterCalls + 1
  /\ pc' = "resolve"
  /\ UNCHANGED <<run, clock, disk, api_key, CONFIG, feedIdx, feedFailed, articles, relevant_articles,
                 genIdx, genLog, content_results, results, file, writes,
                 bot_token, all_chat_ids, messages, rIdx, mIdx, sendLog,
                 fault>>

\* Line 88, one item: `i < len(articles)` raises TypeError for a non-integer;
\* articles[i] raises IndexError for i < -len(articles).
ItemFault(it, N) ==
  IF it.t # "int" THEN "TypeError"
  ELSE IF it.v < -N THEN "IndexError" ELSE ""

\* Line 88: the exception the comprehension ends with, "" if none.
RECURSIVE ResolveFault(_, _)
ResolveFault(items, N) ==
  IF items = <<>> THEN ""
  ELSE IF ItemFault(Head(items), N) # "" THEN ItemFault(Head(items), N)
  ELSE ResolveFault(Tail(items), N)

\* Python list indexing: articles[i] for -N <= i < N (arts is 1-based).
PyIndex(arts, i) == IF i >= 0 THEN arts[i + 1] ELSE arts[Len(arts) + i + 1]

\* Faulty variant of the resolution: an index is taken at its first mention
\* only.
RECURSIVE ResolveDedupFrom(_, _, _)
ResolveDedupFrom(items, arts, seen) ==
  IF items = <<>> THEN <<>>
  ELSE IF Head(items).v < Len(arts) /\ Head(items).v \notin seen
       THEN <<PyIndex(arts, Head(items).v)>>
              \o ResolveDedupFrom(Tail(items), arts, seen \cup {Head(items).v})
       ELSE ResolveDedupFrom(Tail(items), arts, seen)
ResolveArticlesDedup(items, arts) == ResolveDedupFrom(items, arts, {})

\* Line 88 when nothing raises: [articles[i] for i in ... if i < len(articles)].
RECURSIVE ResolveArticles(_, _)
ResolveArticles(items, arts) ==
  IF items = <<>> THEN <<>>
  ELSE IF Head(items).v < Len(arts)
       THEN <<PyIndex(arts, Head(items).v)>> \o ResolveArticles(Tail(items), arts)
       ELSE ResolveArticles(Tail(items), arts)

\* Lines 88-92.
Resolve ==
  /\ pc = "resolve"
  /\ LET f == ResolveFault(relevant_indices.items, Len(articles))
         rel == ResolveArticles(relevant_indices.items, articles)
     IN IF f # ""
        THEN /\ fault' = f
             /\ pc' = "fault"
             /\ UNCHANGED relevant_articles
        ELSE /\ relevant_articles' = rel
             /\ pc' = IF rel = <<>> THEN "save" ELSE "generate"
             /\ UNCHANGED fault
  /\ UNCHANGED <<run, clock, disk, api_key, CONFIG, feedIdx, feedFailed, articles, filter_response,
                 relevant_indices, genIdx, genLog, content_results, results,
                 file, writes, bot_token, all_chat_ids, messages, rIdx, mIdx,
                 sendLog, filterCalls>>

\* Faulty variant of the cap: the slice forgotten.
Uncapped(rel, max) == rel

\* Line 116: relevant_articles[:max_articles] (max_articles >= 0).
Capped(rel, max) == SubSeq(rel, 1, Min(Len(rel), max))

\* Faulty variant of the loop: the try/except around it, a failure ends it.
NextGenIdxAbort(i, ok, n) == IF ok THEN i + 1 ELSE n + 1

\* Lines 116, 154-166: the loop position after one generation call of the n;
\* the except of line 165 is inside the loop.
NextGenIdx(i, ok, n) == i + 1

\* Lines 116-166, one iteration of the generation loop.
GenerateOne ==
  /\ pc = "generate"
  /\ LET todo == Capped(relevant_articles, CONFIG.max_articles) IN
       /\ genIdx <= Len(todo)
       /\ \E ok \in BOOLEAN :
            /\ genLog' = Append(genLog, <<todo[genIdx], ok>>)
            /\ content_results' =
                 IF ok THEN Append(content_results,
                                   [article |-> todo[genIdx],
                                    content |-> Len(genLog) + 1])
                 ELSE content_results
            /\ genIdx' = NextGenIdx(genIdx, ok, Len(todo))
  /\ UNCHANGED <<run, clock, disk, api_key, pc, CONFIG, feedIdx, feedFailed, articles, filter_response,
                 relevant_indices, relevant_articles, results, file, writes,
                 bot_token, all_chat_ids, messages, rIdx, mIdx, sendLog,
                 filterCalls, fault>>

\* Lines 168-169 and main line 294.
GenerateDone ==
  /\ pc = "generate"
  /\ genIdx > Len(Capped(relevant_articles, CONFIG.max_articles))
  /\ results' = ListVal(content_results)
  /\ pc' = "save"
  /\ UNCHANGED <<run, clock, disk, api_key, CONFIG, feedIdx, feedFailed, articles, filter_response,
                 relevant_indices, relevant_articles, genIdx, genLog,
                 content_results, file, writes, bot_token, all_chat_ids,
                 messages, rIdx, mIdx, sendLog, filterCalls, fault>>

\* ---- save_results ----
\* Lines 251-259: the document written for the drafts, of the given length.
Document(drafts, len) ==
  [written |-> TRUE,
   sections |-> [i \in 1..Len(drafts) |->
                   [number |-> i, title |-> drafts[i].article,
                    content |-> drafts[i].content]],
   len |-> len]

\* Lengths the written document may have.
DocLens == {k * ChunkSize + d : k \in 1..MaxChunks, d \in {0, 1}}

\* Lines 248-249: the file name is the clock reading, to the minute.
FileName(now) == now

\* Line 251: open(filename, 'w') creates the file or truncates the one there;
\* the file's writers are kept in order, the last one's document is its content.
Written(d, name, r) == [d EXCEPT ![name] = Append(@, r)]

\* Faulty variant of the guard: `if results is None`.
NothingToSaveNoneOnly(res) == res.none

\* Line 242: `if not results`.
NothingToSave(res) == Falsy(res)

\* Lines 240-261: returns at once for no drafts; otherwise writes the document
\* (makedirs / open / write may raise: nothing catches it up to main's caller).
SaveResults ==
  /\ pc = "save"
  /\ IF NothingToSave(results)
     THEN /\ pc' = "done"
          /\ UNCHANGED <<file, writes, fault, disk>>
     ELSE \E writeOk \in BOOLEAN, len \in DocLens :
            IF writeOk
            THEN /\ file' = Document(results.items, len)
                 /\ disk' = Written(disk, FileName(clock), run)
                 /\ writes' = writes + 1
                 /\ pc' = "telegram"
                 /\ UNCHANGED fault
            ELSE /\ fault' = "OSError"
                 /\ pc' = "fault"
                 /\ UNCHANGED <<file, writes, disk>>
  /\ UNCHANGED <<run, clock, api_key, CONFIG, feedIdx, feedFailed, articles, filter_response,
                 relevant_indices, relevant_articles, genIdx, genLog,
                 content_results, results, bot_token, all_chat_ids, messages,
                 rIdx, mIdx, sendLog, filterCalls>>

\* ---- send_telegram ----
\* What the environment may hold: the primary identifier and the numbered ones
\* (a function over 1..NumEnvSlots; "" is unset).
EnvMain == {"", "A"}
EnvNumbered ==
  {[i \in 1..NumEnvSlots |-> ""],
   [i \in 1..NumEnvSlots |->
      IF i = 1 THEN "B" ELSE IF i = NumEnvSlots THEN "CHAT_ID_1" ELSE ""]}

\* Lines 180-184: the numbered identifiers that are set, in slot order.
RECURSIVE NumberedFrom(_, _)
NumberedFrom(numbered, i) ==
  IF i > NumEnvSlots THEN <<>>
  ELSE (IF numbered[i] # "" THEN <<numbered[i]>> ELSE <<>>)
         \o NumberedFrom(numbered, i + 1)

\* Lines 180-189: env_chat_ids.
EnvChatIds(main, numbered) ==
  (IF main # "" THEN <<main>> ELSE <<>>) \o NumberedFrom(numbered, 1)

\* Lines 192-195: both sources combined, empty and placeholder values removed.
KeepId(cid) == cid # "" /\ ~StartsWithChatId(cid)
AllChatIds(env, cfg) == SelectSeq(env \o cfg, KeepId)

\* Lines 215-218: the slices [lo, hi) of a document of the given length.
NumChunks(len) == (len + ChunkSize - 1) \div ChunkSize

\* Faulty variant of the slicing: the document is never split.
ChunksUnsplit(len) == <<[lo |-> 0, hi |-> len]>>

\* Faulty variant of the slicing: each slice one character short.
ChunksShort(len) ==
  IF len <= ChunkSize THEN <<[lo |-> 0, hi |-> len]>>
  ELSE [k \in 1..NumChunks(len) |->
          [lo |-> (k - 1) * ChunkSize, hi |-> Min(k * ChunkSize - 1, len)]]

\* Lines 215-218: content[i:i+4000] for i in range(0, len(content), 4000).
Chunks(len) ==
  IF len <= ChunkSize THEN <<[lo |-> 0, hi |-> len]>>
  ELSE [k \in 1..NumChunks(len) |->
          [lo |-> (k - 1) * ChunkSize, hi |-> Min(k * ChunkSize, len)]]

\* Faulty variant of the numbering: chunks counted from 0.
TextCountsFromZero(k, chunk) ==
  [part |-> IF k = 1 THEN 0 ELSE k - 1, lo |-> chunk.lo, hi |-> chunk.hi]

\* Line 225: the text of chunk k: the slice, behind "(Bahagian k)\n\n" for
\* k > 1 (part = 0: no prefix).
Text(k, chunk) ==
  [part |-> IF k = 1 THEN 0 ELSE k, lo |-> chunk.lo, hi |-> chunk.hi]

\* Number of decimal digits of k, as f"{msg_idx}" prints it.
RECURSIVE Digits(_)
Digits(k) == IF k < 10 THEN 1 ELSE 1 + Digits(k \div 10)

\* Line 225: the number of characters of a text: "(Bahagian " + k + ")\n\n"
\* (PrefixBase characters and the digits of k) and the slice.
TextLen(text) ==
  (IF text.part = 0 THEN 0 ELSE PrefixBase + Digits(text.part))
    + (text.hi - text.lo)

\* Faulty variant of the checks: the credential is not looked at.
CanDeliverAnyToken(token, ids) == ids # <<>>

\* Lines 197-203: delivery goes on only with a credential and a recipient.
CanDeliver(token, ids) == token /\ ids # <<>>

\* Lines 174-211: recipients and credential resolved, the document read back.
TelegramResolve ==
  /\ pc = "telegram"
  /\ \E token \in BOOLEAN, main \in EnvMain, numbered \in EnvNumbered :
       LET ids == AllChatIds(EnvChatIds(main, numbered), CONFIG.chat_ids) IN
         /\ bot_token' = token
         /\ all_chat_ids' = ids
         /\ pc' = IF CanDeliver(token, ids) THEN "send" ELSE "done"
         /\ messages' = IF CanDeliver(token, ids) THEN Chunks(file.len) ELSE messages
  /\ rIdx' = 1
  /\ mIdx' = 1
  /\ UNCHANGED <<run, clock, disk, api_key, CONFIG, feedIdx, feedFailed, articles, filter_response,
                 relevant_indices, relevant_articles, genIdx, genLog,
                 content_results, results, file, writes, sendLog, filterCalls,
                 fault>>

\* Faulty variant of the loops: a non-success response is sent again.
NextSendRetry(outcome, r, m, nR, nM) ==
  IF outcome = "raise" THEN [pc |-> "done", r |-> r, m |-> m]
  ELSE IF outcome = "non200" THEN [pc |-> "send", r |-> r, m |-> m]
  ELSE IF m < nM THEN [pc |-> "send", r |-> r, m |-> m + 1]
  ELSE IF r < nR THEN [pc |-> "send", r |-> r + 1, m |-> 1]
  ELSE [pc |-> "done", r |-> r, m |-> m]

\* Lines 213-238: where the loops stand after one delivery call. A call that
\* raises leaves both loops through the except of line 237.
NextSend(outcome, r, m, nR, nM) ==
  IF outcome = "raise" THEN [pc |-> "done", r |-> r, m |-> m]
  ELSE IF m < nM THEN [pc |-> "send", r |-> r, m |-> m + 1]
  ELSE IF r < nR THEN [pc |-> "send", r |-> r + 1, m |-> 1]
  ELSE [pc |-> "done", r |-> r, m |-> m]

\* Lines 221-235, one delivery call.
SendOne ==
  /\ pc = "send"
  /\ sendLog' = Append(sendLog, [chat_id |-> all_chat_ids[rIdx], r |-> rIdx,
                                 text |-> Text(mIdx, messages[mIdx])])
  /\ \E outcome \in {"ok", "non200", "raise"} :
       LET nx == NextSend(outcome, rIdx, mIdx, Len(all_chat_ids), Len(messages)) IN
         /\ pc' = nx.pc
         /\ rIdx' = nx.r
         /\ mIdx' = nx.m
  /\ UNCHANGED <<run, clock, disk, api_key, CONFIG, feedIdx, feedFailed, articles, filter_response,
                 relevant_indices, relevant_articles, genIdx, genLog,
                 content_results, results, file, writes, bot_token,
                 all_chat_ids, messages, filterCalls, fault>>

\* The program is started again (a scheduled run) in the same minute or the
\* next one; the output directory and config.json stay.
Restart ==
  /\ pc \in {"done", "fault"}
  /\ run < MaxRuns
  /\ run' = run + 1
  /\ \E dt \in {0, 1} : clock' = clock + dt
  /\ pc' = "main"
  /\ feedIdx' = 1
  /\ feedFailed' = <<>>
  /\ articles' = <<>>
  /\ api_key' = FALSE
  /\ filter_response' = NoResponse
  /\ relevant_indices' = NoResponse
  /\ relevant_articles' = <<>>
  /\ genIdx' = 1
  /\ genLog' = <<>>
  /\ content_results' = <<>>
  /\ results' = NoneVal
  /\ file' = NoFile
  /\ writes' = 0
  /\ bot_token' = FALSE
  /\ all_chat_ids' = <<>>
  /\ messages' = <<>>
  /\ rIdx' = 1
  /\ mIdx' = 1
  /\ sendLog' = <<>>
  /\ filterCalls' = 0
  /\ fault' = ""
  /\ UNCHANGED <<CONFIG, disk>>

Next ==
  \/ MainStart \/ FetchFeed \/ FetchDone
  \/ AnalyzeStart \/ FilterCall \/ Resolve \/ GenerateOne \/ GenerateDone
  \/ SaveResults \/ TelegramResolve \/ SendOne

Spec == Init /\ [][Next]_vars

\* A sequence of runs of the program, under one configuration.
RunsConfig ==
  [loaded |-> TRUE, news_sources |-> 1, max_articles |-> 1, chat_ids |-> <<>>]
InitRuns == Init /\ CONFIG = RunsConfig
NextRuns == Next \/ Restart
SpecRuns == InitRuns /\ [][NextRuns]_vars

\* ---- properties ----
Range(s) == {s[i] : i \in 1..Len(s)}

\* The run has left the given part of the pipeline behind.
PastFetch == pc \notin {"main", "fetch"}
PastResolve == PastFetch /\ pc \notin {"analyze", "filter", "resolve"}
PastGenerate == PastResolve /\ pc # "generate"

\* s is a subsequence of t (same relative order, repetitions counted).
RECURSIVE IsSubseq(_, _)
IsSubseq(s, t) ==
  IF s = <<>> THEN TRUE
  ELSE IF t = <<>> THEN FALSE
  ELSE IF Head(s) = Head(t) THEN IsSubseq(Tail(s), Tail(t))
  ELSE IsSubseq(s, Tail(t))

\* C1: with a credential and a non-empty recipient list, a finished run has
\* attempted one send per (recipient, chunk) pair, whatever the sends returned
\* or raised: number of sends = recipients x chunks.
C1_EveryPairAttempted ==
  (pc = "done" /\ bot_token /\ all_chat_ids # <<>>)
    => Len(sendLog) = Len(all_chat_ids) * NumChunks(file.len)

\* C2: no exception leaves main, whatever the external calls answer.
C2_NoFaultLeavesMain == pc # "fault" /\ fault = ""

\* C3: the recipient list holds no placeholder and no identifier twice.
C3_NoPlaceholderNoDuplicate ==
  /\ \A i \in 1..Len(all_chat_ids) :
       all_chat_ids[i] # "" /\ all_chat_ids[i] \notin PlaceholderIds
  /\ \A i, j \in 1..Len(all_chat_ids) :
       i # j => all_chat_ids[i] # all_chat_ids[j]

\* C4: the external calls happen stage by stage (all feed retrievals, then the
\* filter call, then the generation calls, then the write, then the sends), and
\* a stage that produced nothing is followed by no call of a later stage: no
\* model call after an empty batch, no generation call after an empty resolved
\* selection, no write and no send after an empty draft list.
C4_StagesShortCircuit ==
  /\ filterCalls > 0 => (PastFetch /\ feedIdx > CONFIG.news_sources)
  /\ genLog # <<>> => (filterCalls = 1 /\ PastResolve)
  /\ writes > 0 => (PastGenerate /\ writes = 1)
  /\ sendLog # <<>> => (writes = 1 /\ pc \in {"send", "done"})
  /\ (PastFetch /\ articles = <<>>)
       => (filterCalls = 0 /\ genLog = <<>> /\ writes = 0 /\ sendLog = <<>>)
  /\ (PastResolve /\ relevant_articles = <<>>)
       => (genLog = <<>> /\ writes = 0 /\ sendLog = <<>>)
  /\ (PastGenerate /\ content_results = <<>>)
       => (writes = 0 /\ ~file.written /\ sendLog = <<>>)

\* C4 witness: every generation call failed, and the run ended without a write.
C4_Witness ==
  pc = "done" /\ genLog # <<>> /\ content_results = <<>> /\ writes = 0

\* The filter call failed, or its response is not a list of integers.
NotAnIntegerList(resp) ==
  \/ resp.kind # "list"
  \/ \E i \in 1..Len(resp.items) : resp.items[i].t # "int"

\* C5: when the relevance call fails or its response is not a list of
\* integers, the selection used afterwards is [0, min(N, 3)).
C5_FallbackOnBadResponse ==
  (filterCalls = 1 /\ NotAnIntegerList(filter_response))
    => relevant_indices.items =
         [i \in 1..Min(FallbackCount, Len(articles)) |-> IntItem(i - 1)]

\* The articles of arts at the indices of items that lie in [0, Len(arts)).
RECURSIVE InRangeOnly(_, _)
InRangeOnly(items, arts) ==
  IF items = <<>> THEN <<>>
  ELSE (IF Head(items).v >= 0 /\ Head(items).v < Len(arts)
        THEN <<arts[Head(items).v + 1]>> ELSE <<>>)
         \o InRangeOnly(Tail(items), arts)

\* C6: for a list of integer indices, resolution raises nothing and yields
\* exactly the articles at the in-range indices, in list order; indices outside
\* the batch are dropped.
C6_OutOfRangeDropped ==
  (filterCalls = 1 /\ pc # "resolve" /\ ~NotAnIntegerList(relevant_indices))
    => /\ fault \notin {"TypeError", "IndexError"}
       /\ relevant_articles = InRangeOnly(relevant_indices.items, articles)

DraftArticles == [i \in 1..Len(content_results) |-> content_results[i].article]

\* C7: there are at most min(len(relevant articles), max_articles) drafts,
\* each for a relevant article, in the order of the relevant-article list; the
\* list returned to main is that draft list.
C7_DraftsCappedInOrder ==
  /\ Len(content_results) <= Min(Len(relevant_articles), CONFIG.max_articles)
  /\ Range(DraftArticles) \subseteq Range(relevant_articles)
  /\ IsSubseq(DraftArticles, relevant_articles)
  /\ ~results.none => results.items = content_results

\* C7 witness: more relevant articles than the cap, and as many drafts as the
\* cap allows were returned.
C7_Witness ==
  /\ pc = "save"
  /\ ~results.none
  /\ CONFIG.max_articles >= 1
  /\ Len(relevant_articles) > CONFIG.max_articles
  /\ Len(results.items) = CONFIG.max_articles

\* The drafts of the generation calls that succeeded, call by call.
RECURSIVE DraftsOf(_, _)
DraftsOf(log, k) ==
  IF k > Len(log) THEN <<>>
  ELSE (IF log[k][2] THEN <<[article |-> log[k][1], content |-> k]>> ELSE <<>>)
         \o DraftsOf(log, k + 1)

\* C8: the generation calls are issued for the first min(len(relevant
\* articles), max_articles) articles, one each, in order, whichever fail; once
\* generation is over exactly that many were issued; the drafts are exactly
\* those of the successful calls, one per call.
C8_GenerationIsolated ==
  LET n == Min(Len(relevant_articles), CONFIG.max_articles) IN
    /\ Len(genLog) <= n
    /\ \A i \in 1..Len(genLog) : genLog[i][1] = relevant_articles[i]
    /\ PastGenerate => Len(genLog) = n
    /\ content_results = DraftsOf(genLog, 1)

\* C8 witness: a failed call was followed by a successful one.
C8_Witness ==
  /\ pc = "save"
  /\ Len(genLog) = 2
  /\ ~genLog[1][2]
  /\ genLog[2][2]
  /\ Len(content_results) = 1

\* The body of a sent text: the text with its part prefix removed.
Strip(text) == [lo |-> text.lo, hi |-> text.hi]

\* The bodies sent to the r-th recipient, in send order.
BodiesSentTo(r) ==
  LET ToR(e) == e.r = r
      sent == SelectSeq(sendLog, ToR)
  IN [j \in 1..Len(sent) |-> Strip(sent[j].text)]

\* The slices follow one another from 0 to len: concatenated they are the
\* document.
Reconstructs(slices, len) ==
  /\ slices # <<>>
  /\ slices[1].lo = 0
  /\ slices[Len(slices)].hi = len
  /\ \A k \in 1..(Len(slices) - 1) : slices[k].hi = slices[k + 1].lo

\* C9: for a document of more than 4000 characters, the chunks built for a
\* recipient concatenate to the document, each body has 1..4000 characters;
\* what was sent to a recipient is, in send order and prefixes removed, the
\* leading chunks, and all of them for a recipient whose chunk loop ended.
C9_ChunksReconstruct ==
  (pc \in {"send", "done"} /\ messages # <<>> /\ file.len > ChunkSize)
    => /\ Reconstructs(messages, file.len)
       /\ \A k \in 1..Len(messages) :
            /\ messages[k].hi - messages[k].lo >= 1
            /\ messages[k].hi - messages[k].lo <= ChunkSize
       /\ \A r \in 1..Len(all_chat_ids) :
            /\ Len(BodiesSentTo(r)) <= Len(messages)
            /\ BodiesSentTo(r) = SubSeq(messages, 1, Len(BodiesSentTo(r)))
            /\ r < rIdx => BodiesSentTo(r) = messages

\* C9 witness: a document of exactly two full chunks went out whole to two
\* recipients.
C9_Witness ==
  /\ pc = "done"
  /\ file.len = 2 * ChunkSize
  /\ Len(all_chat_ids) >= 2
  /\ Len(sendLog) = 2 * Len(all_chat_ids)
  /\ BodiesSentTo(2) = messages

\* C11: without a delivery credential, or with an empty recipient list, no
\* delivery call is issued, and the document written earlier in the run stays
\* as written.
C11_NoDeliveryWithoutCredentialOrRecipients ==
  (pc \in {"send", "done"} /\ file.written
     /\ (~bot_token \/ all_chat_ids = <<>>))
    => /\ sendLog = <<>>
       /\ pc = "done"
       /\ writes = 1
       /\ file.sections = Document(results.items, file.len).sections

\* C11 witness: recipients are configured but the credential is missing, and
\* the run ended with the document written and nothing sent.
C11_Witness ==
  /\ pc = "done"
  /\ file.written
  /\ ~bot_token
  /\ all_chat_ids # <<>>
  /\ sendLog = <<>>

\* C12: without a loaded configuration the run ends before the first stage:
\* no feed retrieval, no model call, no write, no delivery call, no fault.
C12_NoConfigAbortsBeforeFetch ==
  ~CONFIG.loaded
    => /\ pc \in {"main", "done"}
       /\ feedFailed = <<>> /\ feedIdx = 1 /\ articles = <<>>
       /\ filterCalls = 0 /\ genLog = <<>>
       /\ writes = 0 /\ sendLog = <<>>
       /\ fault = ""

\* C12 witness: a run without configuration has ended.
C12_Witness == ~CONFIG.loaded /\ pc = "done"

\* C13: once fetch_news has returned, every feed was retrieved, a feed that
\* failed contributed no article, and the batch holds, in feed order then
\* entry order, the leading entries (at most 10) of the feeds that did not fail.
C13_FailedFeedContributesNothing ==
  (PastFetch /\ CONFIG.loaded)
    => /\ Len(feedFailed) = CONFIG.news_sources
       /\ \A i \in 1..Len(articles) :
            /\ ~feedFailed[articles[i][1]]
            /\ articles[i][2] <= PerFeed
            /\ articles[i][2] = 1 \/ (i > 1 /\ articles[i - 1] =
                                        <<articles[i][1], articles[i][2] - 1>>)
            /\ i > 1 => articles[i - 1][1] <= articles[i][1]

\* C16: when the model API credential is absent after a non-empty fetch, no
\* filter call and no generation call is issued, nothing is written or
\* delivered, and the run ends normally.
C16_NoKeySkipsModelStages ==
  (articles # <<>> /\ pc \notin {"main", "fetch", "analyze"} /\ ~api_key)
    => /\ filterCalls = 0 /\ genLog = <<>>
       /\ writes = 0 /\ ~file.written /\ sendLog = <<>>
       /\ pc \in {"save", "done"}
       /\ fault = ""

\* C16 witness: the fetch stage ran, the credential was absent, the run ended.
C16_Witness ==
  /\ pc = "done"
  /\ articles # <<>>
  /\ feedFailed # <<>>
  /\ ~api_key
  /\ filterCalls = 0

\* C17 as stated: at most 10 feed retrievals, at most 1 filter call, at most
\* max_articles generation calls, at most recipients x chunks delivery calls.
C17_AtMostTenFeedCalls ==
  /\ Len(feedFailed) <= 10
  /\ filterCalls <= 1
  /\ Len(genLog) <= CONFIG.max_articles
  /\ Len(sendLog) <= Len(all_chat_ids) * NumChunks(file.len)

\* C17 as amended: at most one feed retrieval per configured feed URL (the
\* feed list is not capped), at most 1 filter call, at most max_articles
\* generation calls, at most recipients x chunks delivery calls.
C17_CallsBounded ==
  /\ Len(feedFailed) <= CONFIG.news_sources
  /\ filterCalls <= 1
  /\ Len(genLog) <= CONFIG.max_articles
  /\ Len(sendLog) <= Len(all_chat_ids) * NumChunks(file.len)

\* C17 witness: a finished run that used every bound: all feeds retrieved,
\* the filter call failed and the run went on with the fallback, max_articles
\* generation calls, and every (recipient, chunk) pair sent.
C17_Witness ==
  /\ pc = "done"
  /\ Len(feedFailed) = CONFIG.news_sources
  /\ CONFIG.news_sources = MaxFeeds
  /\ filterCalls = 1
  /\ Raised(filter_response)
  /\ CONFIG.max_articles >= 1
  /\ Len(genLog) = CONFIG.max_articles
  /\ Len(all_chat_ids) >= 2
  /\ NumChunks(file.len) >= 2
  /\ Len(sendLog) = Len(all_chat_ids) * NumChunks(file.len)

\* C14: no file of the output directory is written by a second run: every
\* run that wrote a document still has it.
C14_NoRunOverwrites ==
  \A m \in DOMAIN disk : Len(disk[m]) <= 1

\* C15: the written document has one section per draft, in draft order, each
\* with the draft's article title, source link, published date and content.
C15_SectionsComplete ==
  file.written
    => /\ Len(file.sections) = Len(results.items)
       /\ \A i \in 1..Len(file.sections) :
            /\ file.sections[i].title = results.items[i].article
            /\ file.sections[i].content = results.items[i].content
            /\ {"link", "published"} \subseteq DOMAIN file.sections[i]

\* C18: the i-th delivery call of the run goes to recipient (i-1) div n + 1
\* with chunk (i-1) mod n + 1 of the n chunks: recipients in list order, all
\* chunks of one recipient in increasing number before the next recipient;
\* chunk 1 goes out without prefix, chunk k >= 2 with the prefix of number k.
C18_DeliveryOrder ==
  \A i \in 1..Len(sendLog) :
    LET n == Len(messages)
        r == ((i - 1) \div n) + 1
        k == ((i - 1) % n) + 1
    IN /\ sendLog[i].r = r
       /\ sendLog[i].chat_id = all_chat_ids[r]
       /\ Strip(sendLog[i].text) = messages[k]
       /\ sendLog[i].text.lo = (k - 1) * ChunkSize
       /\ sendLog[i].text.part = (IF k = 1 THEN 0 ELSE k)

\* C18 witness: three chunks went to each of at least two recipients.
C18_Witness ==
  /\ pc = "done"
  /\ Len(all_chat_ids) >= 2
  /\ Len(messages) = 3
  /\ Len(sendLog) = 3 * Len(all_chat_ids)

\* Number of positions of s that hold x.
Count(s, x) == Cardinality({i \in 1..Len(s) : s[i] = x})

\* The items are integers, none negative.
NonNegativeInts(items) ==
  \A i \in 1..Len(items) : items[i].t = "int" /\ items[i].v >= 0

\* C19: for a parsed list of non-negative indices, an article whose index is
\* mentioned k times is k times in the resolved list, in order of mention;
\* the generation calls follow the resolved list position by position, and an
\* article has one draft per successful call made for it.
C19_DuplicatesKept ==
  (PastResolve /\ filterCalls = 1 /\ filter_response.kind = "list"
     /\ NonNegativeInts(relevant_indices.items))
    => /\ relevant_articles = InRangeOnly(relevant_indices.items, articles)
       /\ \A n \in 1..Len(articles) :
            /\ Count(relevant_articles, articles[n])
                 = Count(relevant_indices.items, IntItem(n - 1))
            /\ Count(DraftArticles, articles[n])
                 = Count(genLog, <<articles[n], TRUE>>)
       /\ \A i \in 1..Len(genLog) : genLog[i][1] = relevant_articles[i]

\* C19 witness: an index mentioned twice, its article called twice and
\* drafted twice.
C19_Witness ==
  /\ pc = "save"
  /\ filter_response.kind = "list"
  /\ Count(relevant_indices.items, IntItem(0)) = 2
  /\ Len(content_results) = 2
  /\ content_results[1].article = content_results[2].article

\* C20: every text passed to the delivery call, prefix included, has at most
\* 4096 characters.
C20_TextWithinLimit ==
  \A i \in 1..Len(sendLog) : TextLen(sendLog[i].text) <= TelegramLimit

\* C20 witness: a full chunk of 4000 characters was sent behind a prefix.
C20_Witness ==
  \E i \in 1..Len(sendLog) :
    /\ sendLog[i].text.part >= 2
    /\ sendLog[i].text.hi - sendLog[i].text.lo = ChunkSize
    /\ TextLen(sendLog[i].text) > ChunkSize

\* C10: when every feed failed, the batch is empty and the run issues no model
\* call, no write and no delivery call.
C10_AllFeedsFailNoCalls ==
  (PastFetch /\ CONFIG.loaded /\ \A i \in 1..Len(feedFailed) : feedFailed[i])
    => (articles = <<>> /\ filterCalls = 0 /\ genLog = <<>>
        /\ writes = 0 /\ sendLog = <<>>)
====
